---- MODULE Spec2Model ----
(***************************************************************************)
(* The DataReviewTable component: record store and fetch lifecycle, the    *)
(* search filter, the CSV flattening/export pipeline and the modal and     *)
(* tooltip interaction state.                                              *)
(*                                                                         *)
(* JavaScript strings are modelled as sequences of one-character strings,  *)
(* so that toLowerCase, includes, String(value) and the CSV serialisation  *)
(* are computed character by character.  A nullable state cell holds Null  *)
(* (the empty tuple) or Some(v) (the one-element tuple <<v>>).             *)
(***************************************************************************)
EXTENDS Integers, Sequences, FiniteSets, TLC

\* ------------------------------------------------------------------ bounds
\* Longest record list the fetch collaborator returns.
MaxRecords == 2

\* ------------------------------------------------------- nullable values
Null == <<>>
Some(v) == <<v>>

\* ----------------------------------------------------- string primitives
Digits == <<"0", "1", "2", "3", "4", "5", "6", "7", "8", "9">>

\* The lower-case letter of each upper-case letter.
LowerOf ==
    [A |-> "a", B |-> "b", C |-> "c", D |-> "d", E |-> "e", F |-> "f", G |-> "g",
     H |-> "h", I |-> "i", J |-> "j", K |-> "k", L |-> "l", M |-> "m", N |-> "n",
     O |-> "o", P |-> "p", Q |-> "q", R |-> "r", S |-> "s", T |-> "t", U |-> "u",
     V |-> "v", W |-> "w", X |-> "x", Y |-> "y", Z |-> "z"]

\* One character of String.prototype.toLowerCase.
LowerChar(c) == IF c \in DOMAIN LowerOf THEN LowerOf[c] ELSE c

\* String.prototype.toLowerCase.
RECURSIVE ToLowerCase(_)
ToLowerCase(s) ==
    IF s = <<>> THEN <<>> ELSE <<LowerChar(Head(s))>> \o ToLowerCase(Tail(s))

\* String.prototype.includes: sub occurs in s at some offset.
Includes(s, sub) ==
    \E off \in 0..(Len(s) - Len(sub)) :
        \A k \in 1..Len(sub) : s[off + k] = sub[k]

\* Number.prototype.toString for a non-negative integer (decimal digits).
RECURSIVE NumberToString(_)
NumberToString(n) ==
    IF n < 10 THEN <<Digits[n + 1]>>
    ELSE NumberToString(n \div 10) \o <<Digits[(n % 10) + 1]>>

\* String(value) of a plain object.
ObjectToString == <<"[", "o", "b", "j", "e", "c", "t", " ",
                    "O", "b", "j", "e", "c", "t", "]">>

\* ---------------------------------------------------------- data types
\* ValidationError.severity
Critical == <<"c", "r", "i", "t", "i", "c", "a", "l">>
Warning == <<"w", "a", "r", "n", "i", "n", "g">>

\* The keys of Record that hold scalars, and the key holding the findings.
ScalarKeys == {"id", "name", "email", "street", "city", "zipcode", "phone", "status"}
WatchedFields == {"email", "phone", "zipcode", "street"}

\* A Record is a function from the keys present in the object to their
\* values; an optional key that is absent is not in its domain.
RecordAnn ==
    [id |-> 1, name |-> <<"A", "n", "n">>,
     email |-> <<"a", "@", "x", ".", "c", "o", "m">>,
     status |-> <<"a", "c", "t", "i", "v", "e">>]

RecordBob ==
    [id |-> 2, name |-> <<"B", "o", "b">>,
     email |-> <<"b", "o", "b", "@", "x">>,
     street |-> <<"1", " ", "M", "a", "i", "n">>,
     city |-> <<"A", "y", "r">>,
     zipcode |-> <<"1", "2", "3">>,
     phone |-> <<"5", "5", "5">>,
     status |-> <<"p", "e", "n", "d", "i", "n", "g">>,
     errors |-> [email |-> [message |-> <<"b", "a", "d", " ", "f", "o", "r", "m", "a", "t">>,
                            severity |-> Critical],
                 zipcode |-> [message |-> <<"s", "h", "o", "r", "t", " ", "z", "i", "p">>,
                              severity |-> Warning]]]

RecordCy ==
    [id |-> 10, name |-> <<"L", "e", "e", ",", " ", "C", "y">>,
     email |-> <<"C", "Y", "@", "X", ".", "C", "O", "M">>,
     phone |-> <<"5", "5">>,
     status |-> <<"i", "n", "a", "c", "t", "i", "v", "e">>,
     errors |-> [phone |-> [message |-> <<"t", "o", "o", " ", "s", "h", "o", "r", "t">>,
                            severity |-> Warning],
                 street |-> [message |-> <<"m", "i", "s", "s", "i", "n", "g">>,
                             severity |-> Critical]]]

\* The records the fetch collaborator can return.
RecordPool == {RecordAnn, RecordBob, RecordCy}

\* The payloads { records: Record[] } of a successful fetch: lists of
\* records with unique ids.
Payloads ==
    UNION {{p \in [1..n -> RecordPool] :
               \A i, j \in 1..n : i # j => p[i].id # p[j].id} : n \in 0..MaxRecords}

\* The texts typed into the search input.
Queries ==
    {<<>>,
     <<"a", "n", "n">>, <<"A", "N", "N">>,
     <<"x", ".", "c", "o", "m">>,
     <<"o", "b", "j", "e", "c", "t">>,
     <<"1", "0">>,
     <<"b", "a", "d">>,
     <<"z", "z">>}

\* The pointer positions (e.pageX, e.pageY) of the mouse events.
PointerPositions == {[x |-> 0, y |-> 0], [x |-> 1, y |-> 2]}

\* The failures the catch block of fetchData can receive: a request that
\* never got a response, responses with an error status, and a response
\* without a body, for which reading response.data.records throws.
FetchFailures == {"network-error", "http-404", "http-500", "type-error"}

\* The message set by the catch block of fetchData.
FetchErrorMessage ==
    <<"E", "r", "r", "o", "r", " ", "f", "e", "t", "c", "h", "i", "n", "g", " ",
      "d", "a", "t", "a", ".", " ", "P", "l", "e", "a", "s", "e", " ", "t", "r", "y",
      " ", "a", "g", "a", "i", "n", " ", "l", "a", "t", "e", "r", ".">>

\* ------------------------------------------------------- filter engine
\* String(value) for the value held under `key`: a number for id, the
\* nested findings object for errors, a string for every other key.
StringOf(record, key) ==
    IF key = "id" THEN NumberToString(record.id)
    ELSE IF key = "errors" THEN ObjectToString
    ELSE record[key]

\* A plausible slip: the query is not lower-cased before the comparison.
MatchesCaseSensitiveQuery(record, query) ==
    \E key \in DOMAIN record :
        Includes(ToLowerCase(StringOf(record, key)), query)

\* A plausible slip: an empty query is treated as "no search" and matches
\* nothing.
MatchesNonEmptyQuery(record, query) ==
    /\ query # <<>>
    /\ \E key \in DOMAIN record :
           Includes(ToLowerCase(StringOf(record, key)), ToLowerCase(query))

\* The predicate of records.filter: some value of Object.values(record),
\* stringified and lower-cased, includes the lower-cased query.
Matches(record, query) ==
    \E key \in DOMAIN record :
        Includes(ToLowerCase(StringOf(record, key)), ToLowerCase(query))

\* records.filter(...) for a record list and a query.
Filter(recs, query) == SelectSeq(recs, LAMBDA r : Matches(r, query))

\* ----------------------------------------------------- export pipeline
\* Object.keys of the object literal flattenRecord returns, in insertion
\* order.
FlatColumns ==
    <<"id", "name", "email", "street", "city", "zipcode", "phone", "status",
      "email_error", "email_severity", "phone_error", "phone_severity",
      "zipcode_error", "zipcode_severity", "street_error", "street_severity">>

\* The characters of each key of the flattened object.
ColumnText ==
    [id |-> <<"i", "d">>,
     name |-> <<"n", "a", "m", "e">>,
     email |-> <<"e", "m", "a", "i", "l">>,
     street |-> <<"s", "t", "r", "e", "e", "t">>,
     city |-> <<"c", "i", "t", "y">>,
     zipcode |-> <<"z", "i", "p", "c", "o", "d", "e">>,
     phone |-> <<"p", "h", "o", "n", "e">>,
     status |-> <<"s", "t", "a", "t", "u", "s">>,
     email_error |-> <<"e", "m", "a", "i", "l", "_", "e", "r", "r", "o", "r">>,
     email_severity |-> <<"e", "m", "a", "i", "l", "_", "s", "e", "v", "e", "r", "i", "t", "y">>,
     phone_error |-> <<"p", "h", "o", "n", "e", "_", "e", "r", "r", "o", "r">>,
     phone_severity |-> <<"p", "h", "o", "n", "e", "_", "s", "e", "v", "e", "r", "i", "t", "y">>,
     zipcode_error |-> <<"z", "i", "p", "c", "o", "d", "e", "_", "e", "r", "r", "o", "r">>,
     zipcode_severity |-> <<"z", "i", "p", "c", "o", "d", "e", "_", "s", "e", "v", "e", "r", "i", "t", "y">>,
     street_error |-> <<"s", "t", "r", "e", "e", "t", "_", "e", "r", "r", "o", "r">>,
     street_severity |-> <<"s", "t", "r", "e", "e", "t", "_", "s", "e", "v", "e", "r", "i", "t", "y">>]

\* A plausible slip: the missing field is stringified instead of defaulted.
OrEmptyUndefined(record, key) ==
    IF key \in DOMAIN record /\ record[key] # <<>>
    THEN record[key]
    ELSE <<"u", "n", "d", "e", "f", "i", "n", "e", "d">>

\* record.<key> || '' for an optional string field.
OrEmpty(record, key) ==
    IF key \in DOMAIN record /\ record[key] # <<>> THEN record[key] ELSE <<>>

\* record.errors?.<field>?.<part> || '' with part message or severity.
FindingPart(record, field, part) ==
    IF "errors" \in DOMAIN record /\ field \in DOMAIN record.errors
    THEN record.errors[field][part]
    ELSE <<>>

\* A plausible slip: the phone and zipcode findings are crossed.
flattenRecordCrossed(record) ==
    [id |-> record.id,
     name |-> record.name,
     email |-> record.email,
     street |-> OrEmpty(record, "street"),
     city |-> OrEmpty(record, "city"),
     zipcode |-> OrEmpty(record, "zipcode"),
     phone |-> OrEmpty(record, "phone"),
     status |-> record.status,
     email_error |-> FindingPart(record, "email", "message"),
     email_severity |-> FindingPart(record, "email", "severity"),
     phone_error |-> FindingPart(record, "zipcode", "message"),
     phone_severity |-> FindingPart(record, "zipcode", "severity"),
     zipcode_error |-> FindingPart(record, "phone", "message"),
     zipcode_severity |-> FindingPart(record, "phone", "severity"),
     street_error |-> FindingPart(record, "street", "message"),
     street_severity |-> FindingPart(record, "street", "severity")]

flattenRecord(record) ==
    [id |-> record.id,
     name |-> record.name,
     email |-> record.email,
     street |-> OrEmpty(record, "street"),
     city |-> OrEmpty(record, "city"),
     zipcode |-> OrEmpty(record, "zipcode"),
     phone |-> OrEmpty(record, "phone"),
     status |-> record.status,
     email_error |-> FindingPart(record, "email", "message"),
     email_severity |-> FindingPart(record, "email", "severity"),
     phone_error |-> FindingPart(record, "phone", "message"),
     phone_severity |-> FindingPart(record, "phone", "severity"),
     zipcode_error |-> FindingPart(record, "zipcode", "message"),
     zipcode_severity |-> FindingPart(record, "zipcode", "severity"),
     street_error |-> FindingPart(record, "street", "message"),
     street_severity |-> FindingPart(record, "street", "severity")]

\* Array.prototype.map(flattenRecord).
FlattenAll(recs) == [i \in 1..Len(recs) |-> flattenRecord(recs[i])]

\* Papa.unparse defaults: delimiter, quote character and line break.
Delimiter == <<",">>
QuoteChar == <<"\"">>
Newline == <<"\r", "\n">>

\* Papa.unparse, safe(): every quote character of the text is doubled.
RECURSIVE EscapeQuotes(_)
EscapeQuotes(s) ==
    IF s = <<>> THEN <<>>
    ELSE (IF Head(s) = QuoteChar[1] THEN QuoteChar \o QuoteChar ELSE <<Head(s)>>)
         \o EscapeQuotes(Tail(s))

\* Papa.unparse, safe(): the text is quoted when it holds a delimiter, a
\* quote, a line break, or starts or ends with a space.
NeedsQuotes(s) ==
    \/ \E i \in DOMAIN s : s[i] \in {",", "\"", "\r", "\n"}
    \/ (s # <<>> /\ (s[1] = " " \/ s[Len(s)] = " "))

Safe(s) ==
    IF NeedsQuotes(s) THEN QuoteChar \o EscapeQuotes(s) \o QuoteChar
    ELSE EscapeQuotes(s)

\* The text Papa.unparse writes for column `col` of a flattened row: the
\* number id through toString, every other column as the string it is.
CellText(flat, col) ==
    IF col = "id" THEN NumberToString(flat.id) ELSE flat[col]

\* Array.prototype.join.
RECURSIVE Join(_, _)
Join(parts, sep) ==
    IF parts = <<>> THEN <<>>
    ELSE IF Len(parts) = 1 THEN parts[1]
    ELSE parts[1] \o sep \o Join(Tail(parts), sep)

\* Papa.unparse, serialize(): the header line.
HeaderLine ==
    Join([i \in 1..Len(FlatColumns) |-> Safe(ColumnText[FlatColumns[i]])], Delimiter)

\* Papa.unparse, serialize(): one data line.
RowLine(flat) ==
    Join([i \in 1..Len(FlatColumns) |-> Safe(CellText(flat, FlatColumns[i]))], Delimiter)

\* Papa.unparse(data) for an array of flattened rows: with no rows there is
\* no first object to take the columns from, and the result is the empty
\* text; otherwise the header line and one line per row, joined by line
\* breaks.
Unparse(data) ==
    IF data = <<>> THEN <<>>
    ELSE Join(<<HeaderLine>> \o [i \in 1..Len(data) |-> RowLine(data[i])], Newline)

\* ------------------------------------------------------------------ state
VARIABLES
    records,          \* useState<Record[]>([])
    loading,          \* useState<boolean>(true)
    error,            \* useState<string | null>(null)
    modalData,        \* useState<Record | null>(null)
    searchQuery,      \* useState<string>("")
    hoveredError,     \* useState<string | null>(null)
    tooltipPosition,  \* useState<{x, y} | null>(null)
    filteredRecords,  \* useMemo(..., [records, searchQuery]): the memoized value
    fetch,            \* the axios.get request: "unissued", "pending", "settled"
    consoleLog,       \* the failure last written by console.error(err)
    download          \* the document last handed to the browser by link.click()

vars == <<records, loading, error, modalData, searchQuery, hoveredError,
          tooltipPosition, filteredRecords, fetch, consoleLog, download>>

Init ==
    /\ records = <<>>
    /\ loading = TRUE
    /\ error = Null
    /\ modalData = Null
    /\ searchQuery = <<>>
    /\ hoveredError = Null
    /\ tooltipPosition = Null
    /\ filteredRecords = Filter(records, searchQuery)
    /\ fetch = "unissued"
    /\ consoleLog = Null
    /\ download = Null

\* ------------------------------------------------------- fetch lifecycle
\* A plausible slip: the effect has no dependency list, so it runs after
\* every render and calls fetchData again once the last request settled.
MountEveryRender ==
    /\ fetch # "pending"
    /\ fetch' = "pending"
    /\ UNCHANGED <<records, loading, error, modalData, searchQuery,
                   hoveredError, tooltipPosition, filteredRecords, consoleLog,
                   download>>

\* useEffect(..., []): runs once after mount and calls fetchData, which
\* issues axios.get("/api/data") and suspends at the await.
Mount ==
    /\ fetch = "unissued"
    /\ fetch' = "pending"
    /\ UNCHANGED <<records, loading, error, modalData, searchQuery,
                   hoveredError, tooltipPosition, filteredRecords, consoleLog,
                   download>>

\* A plausible slip: the dependency list names the records only, so a new
\* query reuses the memoized value.
UseMemoRecordsOnly(newRecords, newQuery) ==
    IF newRecords = records
    THEN filteredRecords
    ELSE Filter(newRecords, newQuery)

\* useMemo(() => records.filter(...), [records, searchQuery]) in the render
\* that follows a state update: the memoized value is reused when neither
\* dependency changed and computed anew otherwise.
UseMemo(newRecords, newQuery) ==
    IF newRecords = records /\ newQuery = searchQuery
    THEN filteredRecords
    ELSE Filter(newRecords, newQuery)

\* A plausible slip: setLoading(false) sits in the catch block only.
FetchFulfilledNoFinally(payload) ==
    /\ fetch = "pending"
    /\ fetch' = "settled"
    /\ records' = payload
    /\ error' = Null
    /\ filteredRecords' = UseMemo(payload, searchQuery)
    /\ UNCHANGED <<loading, modalData, searchQuery, hoveredError,
                   tooltipPosition, consoleLog, download>>

\* fetchData after the awaited request is fulfilled: the try block, then
\* the finally block.
FetchFulfilled(payload) ==
    /\ fetch = "pending"
    /\ fetch' = "settled"
    /\ records' = payload
    /\ error' = Null
    /\ loading' = FALSE
    /\ filteredRecords' = UseMemo(payload, searchQuery)
    /\ UNCHANGED <<modalData, searchQuery, hoveredError, tooltipPosition,
                   consoleLog, download>>

\* A plausible slip: the failure path without the finally block.
FetchRejectedNoFinally(err) ==
    /\ fetch = "pending"
    /\ fetch' = "settled"
    /\ error' = Some(FetchErrorMessage)
    /\ consoleLog' = Some(err)
    /\ UNCHANGED <<records, loading, modalData, searchQuery, hoveredError,
                   tooltipPosition, filteredRecords, download>>

\* A plausible slip: the message shown depends on the failure.
FetchRejectedOwnMessage(err) ==
    /\ fetch = "pending"
    /\ fetch' = "settled"
    /\ error' = Some(<<err>>)
    /\ consoleLog' = Some(err)
    /\ loading' = FALSE
    /\ UNCHANGED <<records, modalData, searchQuery, hoveredError,
                   tooltipPosition, filteredRecords, download>>

\* fetchData after the awaited request failed with `err` (a rejected
\* request, or a throw while reading response.data.records): the catch
\* block, then the finally block.
FetchRejected(err) ==
    /\ fetch = "pending"
    /\ fetch' = "settled"
    /\ error' = Some(FetchErrorMessage)
    /\ consoleLog' = Some(err)
    /\ loading' = FALSE
    /\ UNCHANGED <<records, modalData, searchQuery, hoveredError,
                   tooltipPosition, filteredRecords, download>>

\* ------------------------------------------------------- derived values
\* The component returns the table, the search input and the export
\* button only past the two early returns `if (loading)` and `if (error)`.
TableRendered == ~loading /\ (error = Null \/ error = Some(<<>>))

\* Elements a click can land on while the modal is rendered: the scrim
\* <div id="modal-background">, its interior content, the Close button.
ClickTargets == {"scrim", "content", "close-button"}

\* e.target.id of a click on the element.
TargetId(target) == IF target = "scrim" THEN "modal-background" ELSE ""

\* The first early return: `if (loading)` shows the loading text alone.
LoadingRendered == loading

\* The second early return: `if (error)` shows the error text alone.
ErrorRendered == ~loading /\ error # Null /\ error # Some(<<>>)

\* record.errors?.<field>?.severity: undefined where the record has no
\* finding for the field.
FieldSeverity(record, field) ==
    IF "errors" \in DOMAIN record /\ field \in DOMAIN record.errors
    THEN Some(record.errors[field].severity)
    ELSE Null

\* getFieldColor(severity): the class names of the three treatments.
getFieldColor(severity) ==
    IF severity = Some(Critical)
    THEN "bg-red-500/20 hover:bg-red-500/30 text-red-900"
    ELSE IF severity = Some(Warning)
         THEN "bg-yellow-500/20 hover:bg-yellow-500/30 text-yellow-900"
         ELSE "bg-green-500/20 hover:bg-green-500/30 text-green-900"

\* A plausible slip of copying a cell: the street cell reads the zipcode
\* finding.
CellClassCrossed(record, field) ==
    getFieldColor(FieldSeverity(record, IF field = "street" THEN "zipcode" ELSE field))

\* The treatment of the watched cell of `field` in the row of `record`:
\* getFieldColor(record.errors?.<field>?.severity).
CellClass(record, field) == getFieldColor(FieldSeverity(record, field))

\* A plausible slip: the tooltip is guarded by `hoveredError !== null`, so
\* the empty message of a cell without finding shows an empty tooltip.
TooltipShownNotNull ==
    TableRendered /\ hoveredError # Null /\ tooltipPosition # Null

\* {hoveredError && tooltipPosition && (...)}: the empty message is falsy.
TooltipShown ==
    /\ TableRendered
    /\ hoveredError # Null /\ hoveredError # Some(<<>>)
    /\ tooltipPosition # Null

\* The tooltip of the current render: its text and its style.
Tooltip ==
    IF TooltipShown
    THEN Some([text |-> hoveredError[1],
               top |-> tooltipPosition[1].y + 10,
               left |-> tooltipPosition[1].x + 10])
    ELSE Null

\* {modalData && renderModal(modalData)}.
ModalRendered == TableRendered /\ modalData # Null

\* ------------------------------------------------------------ handlers
\* A plausible slip: the search input is rendered above the early returns.
SetSearchQueryAnyPhase(query) ==
    /\ query # searchQuery
    /\ searchQuery' = query
    /\ filteredRecords' = UseMemo(records, query)
    /\ UNCHANGED <<records, loading, error, modalData, hoveredError,
                   tooltipPosition, fetch, consoleLog, download>>

\* A plausible slip: a new query also dismisses the modal.
SetSearchQueryClosesModal(query) ==
    /\ TableRendered
    /\ query # searchQuery
    /\ searchQuery' = query
    /\ modalData' = Null
    /\ filteredRecords' = UseMemo(records, query)
    /\ UNCHANGED <<records, loading, error, hoveredError,
                   tooltipPosition, fetch, consoleLog, download>>

\* onChange of the search input: setSearchQuery(e.target.value).
SetSearchQuery(query) ==
    /\ TableRendered
    /\ query # searchQuery
    /\ searchQuery' = query
    /\ filteredRecords' = UseMemo(records, query)
    /\ UNCHANGED <<records, loading, error, modalData, hoveredError,
                   tooltipPosition, fetch, consoleLog, download>>

\* A plausible slip: the button opens the modal only while none is open.
OpenModalIfClosed(record) ==
    /\ TableRendered
    /\ modalData' = IF modalData = Null THEN Some(record) ELSE modalData
    /\ UNCHANGED <<records, loading, error, searchQuery, hoveredError,
                   tooltipPosition, filteredRecords, fetch, consoleLog, download>>

\* onClick of the "View Errors" button of the row rendered for `record`
\* (a row of filteredRecords.map): setModalData(record).
OpenModal(record) ==
    /\ TableRendered
    /\ modalData' = Some(record)
    /\ UNCHANGED <<records, loading, error, searchQuery, hoveredError,
                   tooltipPosition, filteredRecords, fetch, consoleLog, download>>

\* A plausible slip: the scrim handler closes whatever the click target.
closeModalAnyTarget(targetId, current) == Null

\* closeModal(e): the value of modalData after the scrim's onClick ran for
\* a click with e.target.id = targetId.
closeModal(targetId, current) ==
    IF targetId = "modal-background" THEN Null ELSE current

\* onClick of the Close button: setModalData(null).
CloseButtonClick(target, current) ==
    IF target = "close-button" THEN Null ELSE current

\* One click inside the rendered modal: the target's own handler runs,
\* then the event bubbles to the scrim's onClick={closeModal}.
ModalClick(target) ==
    /\ TableRendered
    /\ modalData # Null
    /\ modalData' = closeModal(TargetId(target), CloseButtonClick(target, modalData))
    /\ UNCHANGED <<records, loading, error, searchQuery, hoveredError,
                   tooltipPosition, filteredRecords, fetch, consoleLog, download>>

\* onMouseMove of a watched cell of the row rendered for `record` (a row
\* of filteredRecords.map), with e.pageX = page.x and e.pageY = page.y:
\* handleMouseMove(e, record.errors?.<field>?.message || "").
HandleMouseMove(record, field, page) ==
    /\ TableRendered
    /\ hoveredError' = Some(FindingPart(record, field, "message"))
    /\ tooltipPosition' = Some([x |-> page.x, y |-> page.y])
    /\ UNCHANGED <<records, loading, error, modalData, searchQuery,
                   filteredRecords, fetch, consoleLog, download>>

\* A plausible slip: the position is left behind when the message is
\* cleared.
HandleMouseLeaveKeepsPosition ==
    /\ TableRendered
    /\ hoveredError' = Null
    /\ UNCHANGED <<records, loading, error, modalData, searchQuery,
                   tooltipPosition, filteredRecords, fetch, consoleLog, download>>

\* onMouseLeave of a watched cell: handleMouseLeave().
HandleMouseLeave ==
    /\ TableRendered
    /\ hoveredError' = Null
    /\ tooltipPosition' = Null
    /\ UNCHANGED <<records, loading, error, modalData, searchQuery,
                   filteredRecords, fetch, consoleLog, download>>

\* The earlier draft of exportToCSV: records.map(flattenRecord).
ExportedRecordsUnfiltered == records

\* A plausible slip: while the modal is open the export is that of the
\* record it shows.
ExportedRecordsOfModal ==
    IF modalData # Null THEN <<modalData[1]>> ELSE filteredRecords

\* The list exportToCSV flattens: filteredRecords.map(flattenRecord).
ExportedRecords == filteredRecords

\* A plausible slip: the export also dismisses the modal.
ExportToCSVClosesModal ==
    /\ TableRendered
    /\ download' = Some(Unparse(FlattenAll(ExportedRecords)))
    /\ modalData' = Null
    /\ UNCHANGED <<records, loading, error, searchQuery, hoveredError,
                   tooltipPosition, filteredRecords, fetch, consoleLog>>

\* onClick of the "Export CSV" button: exportToCSV().
ExportToCSV ==
    /\ TableRendered
    /\ download' = Some(Unparse(FlattenAll(ExportedRecords)))
    /\ UNCHANGED <<records, loading, error, modalData, searchQuery,
                   hoveredError, tooltipPosition, filteredRecords, fetch, consoleLog>>

Next ==
    \/ Mount
    \/ \E payload \in Payloads : FetchFulfilled(payload)
    \/ \E err \in FetchFailures : FetchRejected(err)
    \/ \E query \in Queries : SetSearchQuery(query)
    \/ LET rows == filteredRecords
       IN  \E i \in DOMAIN rows : OpenModal(rows[i])
    \/ \E target \in ClickTargets : ModalClick(target)
    \/ LET rows == filteredRecords
       IN  \E i \in DOMAIN rows, field \in WatchedFields, page \in PointerPositions :
               HandleMouseMove(rows[i], field, page)
    \/ HandleMouseLeave
    \/ ExportToCSV

Spec == Init /\ [][Next]_vars

\* ================================================================ claims
\* Helpers the properties are stated with.

\* The upper-case letter of each lower-case letter.
UpperOf ==
    [a |-> "A", b |-> "B", c |-> "C", d |-> "D", e |-> "E", f |-> "F", g |-> "G",
     h |-> "H", i |-> "I", j |-> "J", k |-> "K", l |-> "L", m |-> "M", n |-> "N",
     o |-> "O", p |-> "P", q |-> "Q", r |-> "R", s |-> "S", t |-> "T", u |-> "U",
     v |-> "V", w |-> "W", x |-> "X", y |-> "Y", z |-> "Z"]

\* A character in upper case.
UpperChar(c) == IF c \in DOMAIN UpperOf THEN UpperOf[c] ELSE c

\* A text with its letters changed to upper case.
RECURSIVE ToUpperCase(_)
ToUpperCase(s) ==
    IF s = <<>> THEN <<>> ELSE <<UpperChar(Head(s))>> \o ToUpperCase(Tail(s))

\* s contains q as a substring when letter case is ignored.
ContainsIgnoringCase(s, q) ==
    \E off \in 0..(Len(s) - Len(q)) :
        \A k \in 1..Len(q) : LowerChar(s[off + k]) = LowerChar(q[k])

\* The record has a present scalar attribute whose string form contains q,
\* letter case ignored.
ScalarMatch(record, q) ==
    \E key \in (DOMAIN record) \cap ScalarKeys :
        ContainsIgnoringCase(StringOf(record, key), q)

\* The record is an element of the list.
Occurs(record, recs) == \E i \in DOMAIN recs : recs[i] = record

\* sub is recs with some elements left out, the rest in their order.
IsSubsequence(sub, recs) ==
    \E f \in [DOMAIN sub -> DOMAIN recs] :
        /\ \A i \in DOMAIN sub : sub[i] = recs[f[i]]
        /\ \A i, j \in DOMAIN sub : i < j => f[i] < f[j]

\* The lines of a document: the text between line breaks.
LineBreaks(text) ==
    {i \in 1..(Len(text) - 1) : text[i] = "\r" /\ text[i + 1] = "\n"}
LineStarts(text) == {1} \cup {i + 2 : i \in LineBreaks(text)}
Lines(text) ==
    LET starts == LineStarts(text)
        breaks == LineBreaks(text)
        StartOf(k) == CHOOSE b \in starts : Cardinality({c \in starts : c < b}) = k - 1
        EndOf(b) == IF \E e \in breaks : e >= b
                    THEN (CHOOSE e \in breaks : e >= b /\ \A f \in breaks : f >= b => e <= f) - 1
                    ELSE Len(text)
    IN  [k \in 1..Cardinality(starts) |-> SubSeq(text, StartOf(k), EndOf(StartOf(k)))]

\* The lines after the first one.
DataRows(text) == Tail(Lines(text))

\* The text of a line up to its first comma.
RECURSIVE FirstField(_)
FirstField(line) ==
    IF line = <<>> \/ Head(line) = "," THEN <<>>
    ELSE <<Head(line)>> \o FirstField(Tail(line))

\* The header row with the fixed 16-column list.
HeaderText ==
    <<"i", "d", ",", "n", "a", "m", "e", ",", "e", "m", "a", "i", "l", ",",
      "s", "t", "r", "e", "e", "t", ",", "c", "i", "t", "y", ",",
      "z", "i", "p", "c", "o", "d", "e", ",", "p", "h", "o", "n", "e", ",",
      "s", "t", "a", "t", "u", "s", ",",
      "e", "m", "a", "i", "l", "_", "e", "r", "r", "o", "r", ",",
      "e", "m", "a", "i", "l", "_", "s", "e", "v", "e", "r", "i", "t", "y", ",",
      "p", "h", "o", "n", "e", "_", "e", "r", "r", "o", "r", ",",
      "p", "h", "o", "n", "e", "_", "s", "e", "v", "e", "r", "i", "t", "y", ",",
      "z", "i", "p", "c", "o", "d", "e", "_", "e", "r", "r", "o", "r", ",",
      "z", "i", "p", "c", "o", "d", "e", "_", "s", "e", "v", "e", "r", "i", "t", "y", ",",
      "s", "t", "r", "e", "e", "t", "_", "e", "r", "r", "o", "r", ",",
      "s", "t", "r", "e", "e", "t", "_", "s", "e", "v", "e", "r", "i", "t", "y">>

\* A step that hands a new document to the browser.
Exported == download' # download

\* ---------------------------------------------------------------- C1
\* C1: an export of an empty visible subset yields a document of exactly
\* one line, the header row with the fixed 16-column list.
C1_EmptyExportIsHeaderOnly ==
    [][(Exported /\ filteredRecords = <<>>)
          => Lines(download'[1]) = <<HeaderText>>]_vars

\* ---------------------------------------------------------------- C2
\* C2: every record of the visible subset has a scalar attribute (id, name,
\* email, street, city, zipcode, phone, status) whose string form contains
\* the query, letter case ignored; the findings object never causes a match.
C2_VisibleOnlyByScalar ==
    \A i \in DOMAIN filteredRecords : ScalarMatch(filteredRecords[i], searchQuery)

\* ---------------------------------------------------------------- C3
\* C3: the visible subset contains every record with a present scalar
\* attribute containing the query, letter case ignored; changing the letter
\* case of the query does not change it; its records keep their relative
\* order in the record set and none is duplicated.
C3_FilterCompleteOrdered ==
    /\ \A i \in DOMAIN records :
           ScalarMatch(records[i], searchQuery) => Occurs(records[i], filteredRecords)
    /\ Filter(records, ToUpperCase(searchQuery)) = filteredRecords
    /\ Filter(records, ToLowerCase(searchQuery)) = filteredRecords
    /\ IsSubsequence(filteredRecords, records)
    /\ \A i, j \in DOMAIN filteredRecords :
           i # j => filteredRecords[i] # filteredRecords[j]

\* Witness of C3: an upper-case query selects, out of several records, one
\* whose matching attribute is not written in upper case.
C3_Witness ==
    /\ searchQuery = <<"A", "N", "N">>
    /\ Len(records) >= 2
    /\ filteredRecords = <<RecordAnn>>

\* ---------------------------------------------------------------- C4
\* C4: the empty query returns the whole record set in its original order.
C4_EmptyQueryReturnsAll == Filter(records, <<>>) = records

\* Witness of C4: several records are loaded and the query is empty.
C4_Witness ==
    /\ Len(records) >= 2
    /\ searchQuery = <<>>
    /\ Len(filteredRecords) >= 2

\* ---------------------------------------------------------------- C5
\* C5: an export produces exactly one data row per record of the visible
\* subset, in the order of the visible subset, and no row for a record of
\* the store that does not match the query.
C5_ExportIsVisibleSubset ==
    [][Exported =>
          LET rows == DataRows(download'[1])
          IN  /\ Len(rows) = Len(filteredRecords)
              /\ \A i \in DOMAIN filteredRecords :
                     /\ FirstField(rows[i]) = NumberToString(filteredRecords[i].id)
                     /\ rows[i] = RowLine(flattenRecord(filteredRecords[i]))
              /\ \A j \in DOMAIN records :
                     ~Occurs(records[j], filteredRecords)
                         => \A i \in DOMAIN rows :
                                FirstField(rows[i]) # NumberToString(records[j].id)]_vars

\* Witness of C5: a document was exported that has data rows, fewer than
\* the store has records.
C5_Witness ==
    /\ download # Null
    /\ Len(DataRows(download[1])) >= 1
    /\ Len(DataRows(download[1])) < Len(records)

\* ---------------------------------------------------------------- C6
\* The column that holds the message, and the one that holds the severity,
\* of the finding on each watched field.
ErrorColumn ==
    [email |-> "email_error", phone |-> "phone_error",
     zipcode |-> "zipcode_error", street |-> "street_error"]
SeverityColumn ==
    [email |-> "email_severity", phone |-> "phone_severity",
     zipcode |-> "zipcode_severity", street |-> "street_severity"]

\* The record has a finding on the field.
HasFinding(record, field) ==
    "errors" \in DOMAIN record /\ field \in DOMAIN record.errors

\* The row of a record as the claim describes it.
FlatAsDescribed(record, flat) ==
    /\ DOMAIN flat =
           {"id", "name", "email", "street", "city", "zipcode", "phone", "status",
            "email_error", "email_severity", "phone_error", "phone_severity",
            "zipcode_error", "zipcode_severity", "street_error", "street_severity"}
    /\ flat.id = record.id
    /\ flat.name = record.name
    /\ flat.email = record.email
    /\ flat.status = record.status
    /\ \A key \in {"street", "city", "zipcode", "phone"} :
           flat[key] = IF key \in DOMAIN record THEN record[key] ELSE <<>>
    /\ \A field \in WatchedFields :
           IF HasFinding(record, field)
           THEN /\ flat[ErrorColumn[field]] = record.errors[field].message
                /\ flat[SeverityColumn[field]] = record.errors[field].severity
           ELSE /\ flat[ErrorColumn[field]] = <<>>
                /\ flat[SeverityColumn[field]] = <<>>

\* C6: flattening a record yields exactly the 16 columns id .. street_severity
\* in that order; an absent optional field is the empty string; each
\* <field>_error and <field>_severity hold the finding of that same field,
\* or the empty string when it has none.
C6_FlattenColumns ==
    /\ \A i \in DOMAIN records : FlatAsDescribed(records[i], flattenRecord(records[i]))
    /\ (download # Null /\ download[1] # <<>>) => Lines(download[1])[1] = HeaderText

\* Witness of C6: a record with findings on phone and street only and no
\* street, city or zipcode was loaded and exported.
C6_Witness ==
    /\ Occurs(RecordCy, records)
    /\ download # Null
    /\ \E i \in DOMAIN DataRows(download[1]) :
           DataRows(download[1])[i] = RowLine(flattenRecord(RecordCy))

\* ---------------------------------------------------------------- C7
\* The example row as the claim writes it: nine empty fields after active.
AnnRowAsWritten ==
    <<"1", ",", "A", "n", "n", ",", "a", "@", "x", ".", "c", "o", "m", ",",
      ",", ",", ",", ",", "a", "c", "t", "i", "v", "e",
      ",", ",", ",", ",", ",", ",", ",", ",", ",">>

\* The example row with eight empty fields after active: 16 columns.
AnnRowSixteenColumns ==
    <<"1", ",", "A", "n", "n", ",", "a", "@", "x", ".", "c", "o", "m", ",",
      ",", ",", ",", ",", "a", "c", "t", "i", "v", "e",
      ",", ",", ",", ",", ",", ",", ",", ",">>

\* A document holding the row of the single record Ann was exported.
AnnExported ==
    /\ records = <<RecordAnn>>
    /\ download # Null
    /\ download[1] # <<>>

\* C7 as stated: the export of the single record {id:1, name:"Ann",
\* email:"a@x.com", status:"active"} has the data row
\* 1,Ann,a@x.com,,,,,active,,,,,,,,, (nine trailing empty fields).
C7_AnnRowAsWritten ==
    AnnExported => DataRows(download[1]) = <<AnnRowAsWritten>>

\* C7 as amended: the export of that record has the data row
\* 1,Ann,a@x.com,,,,,active,,,,,,,, (eight trailing empty fields, one per
\* error and severity column).
C7_AnnRowSixteenColumns ==
    AnnExported => DataRows(download[1]) = <<AnnRowSixteenColumns>>

\* Witness of C7: the single record Ann was exported.
C7_Witness == AnnExported /\ Len(DataRows(download[1])) = 1

\* ---------------------------------------------------------------- C8
\* C8: pointerPosition (tooltipPosition) is set if and only if
\* hoveredFieldMessage (hoveredError) is set.
C8_HoverStateTogether == (hoveredError = Null) <=> (tooltipPosition = Null)

\* Witness of C8: a field without a finding is hovered, with other
\* interaction going on.
C8_Witness ==
    /\ hoveredError = Some(<<>>)
    /\ tooltipPosition # Null
    /\ modalData # Null

\* ---------------------------------------------------------------- C9
\* C9: while a detail view is open, a click on the scrim itself clears
\* activeDetailRecord (modalData), a click on interior content leaves it
\* unchanged, and a click on the Close action clears it.
C9_ScrimAndCloseDismiss ==
    [][\A target \in ClickTargets :
           ModalClick(target) =>
               modalData' = IF target = "content" THEN modalData ELSE Null]_vars

\* Witness of C9: a detail view is open and can be clicked.
C9_Witness ==
    /\ TableRendered
    /\ modalData # Null
    /\ ENABLED ModalClick("content")
    /\ ENABLED ModalClick("scrim")

\* --------------------------------------------------------------- C10
\* The phases of the Record Store.
PhaseLoading == loading = TRUE
PhaseReady == loading = FALSE /\ error = Null
PhaseFailed == loading = FALSE /\ error = Some(FetchErrorMessage) /\ records = <<>>

\* C10: the store starts loading with no records; one fetch is issued; its
\* completion moves the store in one step to exactly one of ready and
\* fetch-failed; from there it never returns to loading, never changes
\* phase or contents, and no further fetch is issued.
C10_FetchLifecycle ==
    /\ (PhaseLoading /\ records = <<>> /\ error = Null /\ fetch = "unissued")
    /\ [](PhaseLoading <=> fetch # "settled")
    /\ [](PhaseLoading => (records = <<>> /\ error = Null))
    /\ [](~PhaseLoading => (PhaseReady \/ PhaseFailed))
    /\ [][/\ fetch' # fetch =>
                 \/ (fetch = "unissued" /\ fetch' = "pending")
                 \/ (fetch = "pending" /\ fetch' = "settled")
          /\ ~PhaseLoading => (~PhaseLoading' /\ UNCHANGED <<records, error, fetch>>)
          /\ (PhaseLoading /\ ~PhaseLoading') =>
                 /\ fetch = "pending"
                 /\ (PhaseReady' \/ PhaseFailed')]_vars

\* Witness of C10: the store is ready with records and the user has gone on
\* working with it.
C10_Witness ==
    /\ PhaseReady
    /\ fetch = "settled"
    /\ records # <<>>
    /\ searchQuery # <<>>
    /\ download # Null

\* ---------------------------------------------------------------- C11
\* A step of one of the handlers the table, the search input, the export
\* button, the modal and the watched cells carry.
InteractionStep ==
    \/ \E query \in Queries : SetSearchQuery(query)
    \/ \E record \in RecordPool : OpenModal(record)
    \/ \E target \in ClickTargets : ModalClick(target)
    \/ \E record \in RecordPool, field \in WatchedFields, page \in PointerPositions :
           HandleMouseMove(record, field, page)
    \/ HandleMouseLeave
    \/ ExportToCSV

\* C11: every failure of the fetch, whichever failure it is, ends in the
\* same state: error holds the one fixed message, records is still empty,
\* and the component returns the message alone, so that no handler of the
\* table, the search input or the export button can run; after a fulfilled
\* fetch error is unset.
C11_FailureOutcome ==
    fetch = "settled" =>
        IF consoleLog # Null
        THEN /\ error = Some(FetchErrorMessage)
             /\ records = <<>>
             /\ filteredRecords = <<>>
             /\ ErrorRendered
             /\ ~LoadingRendered
             /\ ~TableRendered
             /\ ~ENABLED InteractionStep
        ELSE error = Null

C11_Witness ==
    /\ fetch = "settled"
    /\ consoleLog = Some("type-error")
    /\ error = Some(FetchErrorMessage)
    /\ ErrorRendered

\* ---------------------------------------------------------------- C12
\* C12: in every state of the loading phase and of the failed phase no
\* query change, hover, open-detail or export can happen, and the query is
\* empty, no modal is open, no hover state is set and nothing was exported.
C12_NoInteractionOutsideTable ==
    ~TableRendered =>
        /\ LoadingRendered \/ ErrorRendered
        /\ searchQuery = <<>>
        /\ modalData = Null
        /\ hoveredError = Null
        /\ tooltipPosition = Null
        /\ download = Null
        /\ ~ENABLED InteractionStep

C12_Witness ==
    /\ LoadingRendered
    /\ fetch = "pending"
    /\ searchQuery = <<>>
    /\ modalData = Null

\* ---------------------------------------------------------------- C13
\* C13: a step of exportToCSV changes none of records, loading, error, the
\* query, the visible subset, the modal record, the hovered message and
\* the pointer position.
C13_ExportFrame ==
    [][(ExportToCSV \/ Exported) =>
          UNCHANGED <<records, loading, error, searchQuery, filteredRecords,
                      modalData, hoveredError, tooltipPosition>>]_vars

C13_Witness ==
    /\ download # Null
    /\ modalData # Null
    /\ hoveredError # Null
    /\ searchQuery # <<>>
    /\ ENABLED ExportToCSV

\* ---------------------------------------------------------------- C14
\* The document for a record list and a query.
DocumentOf(recs, query) == Unparse(FlattenAll(Filter(recs, query)))

\* C14: the document of an export is determined by the records and the
\* query alone, whatever the modal and the hover state are; so an export
\* that follows an export of the same records and query hands over the
\* same document again.
C14_ExportDeterminedByVisible ==
    [][ExportToCSV =>
          /\ download' = Some(DocumentOf(records, searchQuery))
          /\ download = Some(DocumentOf(records, searchQuery)) => download' = download]_vars

C14_Witness ==
    /\ download = Some(DocumentOf(records, searchQuery))
    /\ download # Some(<<>>)
    /\ modalData # Null
    /\ ~Occurs(modalData[1], filteredRecords)
    /\ hoveredError # Null

\* ---------------------------------------------------------------- C15
\* The tier of a field of a record: that of its finding, "none" without.
TierOf(record, field) ==
    IF ~HasFinding(record, field)
    THEN "none"
    ELSE IF record.errors[field].severity = Critical
         THEN "critical"
         ELSE "warning"

\* The treatment each tier selects.
TierTreatment ==
    [critical |-> getFieldColor(Some(Critical)),
     warning  |-> getFieldColor(Some(Warning)),
     none     |-> getFieldColor(Null)]

\* C15: the three tiers select three different treatments, and every
\* watched cell of every row shows the treatment of the tier of the finding
\* the row's record has for that same field: critical for a critical
\* finding, warning for a warning finding, none without a finding.
C15_SeverityTiers ==
    /\ TierTreatment.critical # TierTreatment.warning
    /\ TierTreatment.critical # TierTreatment.none
    /\ TierTreatment.warning # TierTreatment.none
    /\ \A i \in DOMAIN filteredRecords, field \in WatchedFields :
           CellClass(filteredRecords[i], field)
               = TierTreatment[TierOf(filteredRecords[i], field)]

C15_Witness ==
    /\ TableRendered
    /\ Occurs(RecordBob, filteredRecords)
    /\ TierOf(RecordBob, "email") = "critical"
    /\ TierOf(RecordBob, "zipcode") = "warning"
    /\ TierOf(RecordBob, "street") = "none"

\* ---------------------------------------------------------------- C16
\* A step that changes the hover state.
HoverStep == <<hoveredError, tooltipPosition>>' # <<hoveredError, tooltipPosition>>

\* C16: after a pointer move over a watched cell the tooltip is shown
\* exactly if the row's record has a finding for the field, with the
\* finding's message, placed from the pointer position of the move; after a
\* pointer leave no tooltip is shown; every other step leaves the tooltip
\* as it is.
C16_TooltipFollowsHover ==
    [][/\ \A record \in RecordPool, field \in WatchedFields, page \in PointerPositions :
              (Occurs(record, filteredRecords) /\ HandleMouseMove(record, field, page)) =>
                  Tooltip' = IF HasFinding(record, field)
                             THEN Some([text |-> record.errors[field].message,
                                        top |-> page.y + 10,
                                        left |-> page.x + 10])
                             ELSE Null
       /\ HandleMouseLeave => Tooltip' = Null
       /\ ~HoverStep => Tooltip' = Tooltip]_vars

C16_Witness ==
    /\ TooltipShown
    /\ Tooltip = Some([text |-> RecordBob.errors.email.message, top |-> 12, left |-> 11])

\* ---------------------------------------------------------------- C17
\* The fetch was fulfilled.
FetchSucceeded == fetch = "settled" /\ consoleLog = Null

\* The fetch failed.
FetchFailed == fetch = "settled" /\ consoleLog # Null

\* The fetch is not settled.
FetchOutstanding == fetch # "settled"

\* C17: if the fetch is eventually fulfilled the component eventually
\* shows the table, if it eventually fails the component eventually shows
\* the error, and if it never settles the component stays loading forever.
C17_LeavesLoadingIffSettled ==
    /\ <>FetchSucceeded => <>PhaseReady
    /\ <>FetchFailed => <>PhaseFailed
    /\ []FetchOutstanding => []PhaseLoading

C17_Witness ==
    /\ FetchFailed
    /\ PhaseFailed
    /\ ~LoadingRendered

\* ---------------------------------------------------------------- C18
\* C18: in every state the memoized visible subset is the filter of the
\* current records by the current query, each of its records is a record of
\* the store, and no query change, which computes it anew, changes the
\* records.
C18_VisibleSubsetCurrent ==
    /\ filteredRecords = Filter(records, searchQuery)
    /\ \A i \in DOMAIN filteredRecords : Occurs(filteredRecords[i], records)
    /\ ~ENABLED ((\E query \in Queries : SetSearchQuery(query)) /\ records' # records)

C18_Witness ==
    /\ searchQuery # <<>>
    /\ filteredRecords # <<>>
    /\ Len(filteredRecords) < Len(records)

\* ---------------------------------------------------------------- C19
\* C19: a click on the "View Errors" button of a row, with or without a
\* modal open, leaves modalData holding exactly the row's record, and
\* modalData never holds more than one record.
C19_OpenDetailReplaces ==
    /\ Len(modalData) <= 1
    /\ TableRendered =>
           \A i \in DOMAIN filteredRecords :
               /\ ENABLED OpenModal(filteredRecords[i])
               /\ ~ENABLED (/\ OpenModal(filteredRecords[i])
                            /\ modalData' # Some(filteredRecords[i]))

C19_Witness ==
    /\ ModalRendered
    /\ \E i \in DOMAIN filteredRecords :
           /\ filteredRecords[i] # modalData[1]
           /\ ENABLED OpenModal(filteredRecords[i])

\* ---------------------------------------------------------------- C20
\* C20: a step that changes the query leaves the modal record and the
\* hover state as they are; a step that changes the modal record leaves the
\* hover state and the query as they are; a step that changes the hover
\* state leaves the modal record and the query as they are; none of the
\* three changes records, loading or error.
C20_InteractionFrames ==
    [][/\ searchQuery' # searchQuery =>
              UNCHANGED <<modalData, hoveredError, tooltipPosition,
                          records, loading, error>>
       /\ modalData' # modalData =>
              UNCHANGED <<searchQuery, hoveredError, tooltipPosition,
                          records, loading, error>>
       /\ HoverStep =>
              UNCHANGED <<searchQuery, modalData, records, loading, error>>]_vars

C20_Witness ==
    /\ modalData # Null
    /\ searchQuery # <<>>
    /\ ~Occurs(modalData[1], filteredRecords)
    /\ hoveredError # Null

\* ---------------------------------------------------------------- C21
\* The records are those of a fulfilled fetch and the table is shown.
StoreReady == PhaseReady /\ fetch = "settled"

\* C21: in every state the record modalData holds, if any, is one of the
\* current records, and once the fetch is fulfilled no step replaces or
\* empties the records.
C21_DetailRecordInStore ==
    /\ [](modalData # Null => Occurs(modalData[1], records))
    /\ [][StoreReady => records' = records]_vars

C21_Witness ==
    /\ StoreReady
    /\ ModalRendered
    /\ Occurs(modalData[1], records)
    /\ Len(records) > 1
    /\ filteredRecords = <<>>
====
